---- MODULE Spec2Model ----
(***************************************************************************)
(* The /result request handler of app.py and the findings-to-report        *)
(* pipeline behind it: fetch_json_from_s3, extract_compliance_details and  *)
(* generate_pdf.                                                           *)
(*                                                                         *)
(* Python strings are sequences of one-character strings, so that          *)
(* str.lower() and the f-string concatenations are computed and not        *)
(* assumed.  A JSON value carries its kind, so that a missing key, a null  *)
(* and a value of the wrong type are three different inputs.               *)
(***************************************************************************)
EXTENDS Integers, Sequences, FiniteSets, TLC

----------------------------------------------------------------------------
(* String literals of app.py and of the input documents.                   *)

S_high == <<"h", "i", "g", "h">>
S_medium == <<"m", "e", "d", "i", "u", "m">>
S_Unknown == <<"U", "n", "k", "n", "o", "w", "n">>
S_NoDescription == <<"N", "o", " ", "d", "e", "s", "c", "r", "i", "p", "t", "i", "o", "n", " ", "a", "v", "a", "i", "l", "a", "b", "l", "e">>
S_FINANCIAL == <<"F", "I", "N", "A", "N", "C", "I", "A", "L">>
S_PERSONAL_HEALTH == <<"P", "E", "R", "S", "O", "N", "A", "L", "_", "H", "E", "A", "L", "T", "H">>
S_SSN == <<"S", "S", "N">>
S_EMAIL == <<"E", "M", "A", "I", "L">>
S_PHONE == <<"P", "H", "O", "N", "E">>
S_ADDRESS == <<"A", "D", "D", "R", "E", "S", "S">>
S_ImmediatelyProtect == <<"I", "m", "m", "e", "d", "i", "a", "t", "e", "l", "y", " ", "p", "r", "o", "t", "e", "c", "t", " ">>
S_Information == <<" ", "i", "n", "f", "o", "r", "m", "a", "t", "i", "o", "n">>
S_ReviewAndSecure == <<"R", "e", "v", "i", "e", "w", " ", "a", "n", "d", " ", "s", "e", "c", "u", "r", "e", " ">>
S_DataHandling == <<" ", "d", "a", "t", "a", " ", "h", "a", "n", "d", "l", "i", "n", "g">>
S_Maintain == <<"M", "a", "i", "n", "t", "a", "i", "n", " ", "c", "u", "r", "r", "e", "n", "t", " ", "d", "a", "t", "a", " ", "p", "r", "o", "t", "e", "c", "t", "i", "o", "n", " ", "m", "e", "a", "s", "u", "r", "e", "s">>
S_PartiallyVisible == <<"P", "a", "r", "t", "i", "a", "l", "l", "y", " ", "V", "i", "s", "i", "b", "l", "e">>
S_High == <<"H", "i", "g", "h">>
S_HIGH == <<"H", "I", "G", "H">>
S_hIgH == <<"h", "I", "g", "H">>
S_Medium == <<"M", "e", "d", "i", "u", "m">>
S_mEDIUM == <<"m", "E", "D", "I", "U", "M">>
S_Low == <<"L", "o", "w">>
S_ssn == <<"s", "s", "n">>
S_Email == <<"E", "m", "a", "i", "l">>
S_OTHER == <<"O", "T", "H", "E", "R">>
S_PII == <<"P", "I", "I">>
S_Timestamp == <<"2", "0", "2", "5", "-", "0", "1", "-", "0", "1">>
S_Text == <<"s", "c", "a", "n">>

(* str.lower() on one ASCII character. *)
lower_char(c) ==
    CASE c = "A" -> "a"
      [] c = "B" -> "b"
      [] c = "C" -> "c"
      [] c = "D" -> "d"
      [] c = "E" -> "e"
      [] c = "F" -> "f"
      [] c = "G" -> "g"
      [] c = "H" -> "h"
      [] c = "I" -> "i"
      [] c = "J" -> "j"
      [] c = "K" -> "k"
      [] c = "L" -> "l"
      [] c = "M" -> "m"
      [] c = "N" -> "n"
      [] c = "O" -> "o"
      [] c = "P" -> "p"
      [] c = "Q" -> "q"
      [] c = "R" -> "r"
      [] c = "S" -> "s"
      [] c = "T" -> "t"
      [] c = "U" -> "u"
      [] c = "V" -> "v"
      [] c = "W" -> "w"
      [] c = "X" -> "x"
      [] c = "Y" -> "y"
      [] c = "Z" -> "z"
      [] OTHER -> c

(* str.lower(): every character lower-cased, length and order kept. *)
lower(s) == [i \in 1..Len(s) |-> lower_char(s[i])]

----------------------------------------------------------------------------
(* JSON values as json.loads returns them.                                 *)

JAbsent == [kind |-> "absent", s |-> <<>>, n |-> 0]
JNull == [kind |-> "null", s |-> <<>>, n |-> 0]
JNum(n) == [kind |-> "num", s |-> <<>>, n |-> n]
JStr(s) == [kind |-> "str", s |-> s, n |-> 0]

(* dict.get(key, default): the default only when the key is missing; a    *)
(* key that is present with null or with a value of another type gives   *)
(* that value.                                                            *)
dict_get(v, default) == IF v.kind = "absent" THEN default ELSE v

(* The values an exception-raising expression can produce.                *)
Raise(e) == [raised |-> e]
Return(v) == [raised |-> "none", value |-> v]

EmptyDict == [kind |-> "dict", description |-> JAbsent]
EmptyResult == [kind |-> "dict", sensitiveData |-> [kind |-> "absent", items |-> <<>>]]
EmptyDetails == [kind |-> "dict", result |-> [kind |-> "absent", sensitiveData |-> [kind |-> "absent", items |-> <<>>]]]

----------------------------------------------------------------------------
(* extract_compliance_details                                             *)

(* first_object with an empty list read as a list holding one empty      *)
(* finding, as "report = json_data[0] if json_data else {}" would do.     *)
first_object_or_empty(json_data) ==
    IF json_data.kind # "list" THEN Raise("TypeError")
    ELSE IF Len(json_data.elems) = 0
         THEN Return([kind |-> "dict",
                      severity |-> [kind |-> "absent", description |-> JAbsent],
                      category |-> JAbsent, count |-> JAbsent,
                      description |-> JAbsent, updatedAt |-> JAbsent,
                      classificationDetails |-> EmptyDetails])
    ELSE Return(json_data.elems[1])

(* json_data[0]: IndexError on an empty list, TypeError or KeyError on a  *)
(* document that is no list.                                              *)
first_object(json_data) ==
    IF json_data.kind # "list" THEN Raise("TypeError")
    ELSE IF Len(json_data.elems) = 0 THEN Raise("IndexError")
    ELSE Return(json_data.elems[1])

(* report.get("severity", {}).get("description", "Unknown")               *)
get_severity(report) ==
    IF report.kind # "dict" THEN Raise("AttributeError")
    ELSE LET sev == dict_get(report.severity, EmptyDict)
         IN  IF sev.kind # "dict" THEN Raise("AttributeError")
             ELSE Return(dict_get(sev.description, JStr(S_Unknown)))

(* seed_risk_counts comparing severity itself, the .lower() calls left    *)
(* out.                                                                   *)
seed_without_lower(severity) ==
    IF severity.kind # "str" THEN Raise("AttributeError")
    ELSE IF severity.s = S_high
         THEN Return([High |-> 1, Medium |-> 0, Low |-> 0])
    ELSE IF severity.s = S_medium
         THEN Return([High |-> 0, Medium |-> 1, Low |-> 0])
    ELSE Return([High |-> 0, Medium |-> 0, Low |-> 1])

(* The seeding of risk_counts from the severity description.              *)
seed_risk_counts(severity) ==
    IF severity.kind # "str" THEN Raise("AttributeError")
    ELSE IF lower(severity.s) = S_high
         THEN Return([High |-> 1, Medium |-> 0, Low |-> 0])
    ELSE IF lower(severity.s) = S_medium
         THEN Return([High |-> 0, Medium |-> 1, Low |-> 0])
    ELSE Return([High |-> 0, Medium |-> 0, Low |-> 1])

(* report.get("classificationDetails", {}).get("result", {})              *)
(*       .get("sensitiveData", [])                                        *)
get_sensitive_data(report) ==
    LET details == dict_get(report.classificationDetails, EmptyDetails)
    IN  IF details.kind # "dict" THEN Raise("AttributeError")
        ELSE LET res == dict_get(details.result, EmptyResult)
             IN  IF res.kind # "dict" THEN Raise("AttributeError")
                 ELSE Return(dict_get(res.sensitiveData,
                                      [kind |-> "list", items |-> <<>>]))

(* classify matching the category whatever its letter case.               *)
classify_ignoring_case(category) ==
    IF category.kind = "str"
       /\ lower(category.s) \in {lower(S_FINANCIAL), lower(S_PERSONAL_HEALTH), lower(S_SSN)}
    THEN [risk |-> "High",
          action |-> S_ImmediatelyProtect \o category.s \o S_Information]
    ELSE IF category.kind = "str"
            /\ lower(category.s) \in {lower(S_EMAIL), lower(S_PHONE), lower(S_ADDRESS)}
    THEN [risk |-> "Medium",
          action |-> S_ReviewAndSecure \o category.s \o S_DataHandling]
    ELSE [risk |-> "Low", action |-> S_Maintain]

(* The risk assessment of one category: membership in the two lists is    *)
(* by equality, so a value that is no string falls to the last branch.    *)
classify(category) ==
    IF category \in {JStr(S_FINANCIAL), JStr(S_PERSONAL_HEALTH), JStr(S_SSN)}
    THEN [risk |-> "High",
          action |-> S_ImmediatelyProtect \o category.s \o S_Information]
    ELSE IF category \in {JStr(S_EMAIL), JStr(S_PHONE), JStr(S_ADDRESS)}
    THEN [risk |-> "Medium",
          action |-> S_ReviewAndSecure \o category.s \o S_DataHandling]
    ELSE [risk |-> "Low", action |-> S_Maintain]

(* increment as "risk_counts[risk] = 1": an assignment for the "+=".      *)
increment_assign(risk_counts, risk) ==
    [risk_counts EXCEPT ![risk] = 1]

(* risk_counts[risk] += 1                                                 *)
increment(risk_counts, risk) ==
    [risk_counts EXCEPT ![risk] = risk_counts[risk] + 1]

(* append as sensitivities.insert(0, {...}): newest entry first.          *)
append_front(sensitivities, category, c) ==
    <<[type |-> category, visibility |-> S_PartiallyVisible,
       risk |-> c.risk, action |-> c.action]>> \o sensitivities

(* sensitivities.append({...})                                            *)
append(sensitivities, category, c) ==
    Append(sensitivities,
           [type |-> category, visibility |-> S_PartiallyVisible,
            risk |-> c.risk, action |-> c.action])

(* The loop over sensitive_data, from item i on: data.get raises on an    *)
(* item that is no dict, with the items before it already counted.        *)
RECURSIVE categorize(_, _, _, _)
categorize(items, i, risk_counts, sensitivities) ==
    IF i > Len(items)
    THEN Return([risk_counts |-> risk_counts, sensitivities |-> sensitivities])
    ELSE IF items[i].kind # "dict" THEN Raise("AttributeError")
    ELSE LET category == dict_get(items[i].category, JStr(S_Unknown))
             c == classify(category)
         IN  categorize(items, i + 1, increment(risk_counts, c.risk),
                        append(sensitivities, category, c))

(* metric without the min(100, ...) around it.                            *)
metric_unclamped(count, weight, base) == count * weight + base

(* min(100, count * weight + base)                                        *)
metric(count, weight, base) ==
    IF count * weight + base < 100 THEN count * weight + base ELSE 100

(* The compliance_details dictionary.                                     *)
compliance_dict(report, severity, sensitive_data, loop) ==
    [Risk_Level |-> severity,
     Category |-> dict_get(report.category, JStr(S_Unknown)),
     Findings_Count |-> dict_get(report.count, JNum(0)),
     Description |-> dict_get(report.description, JStr(S_NoDescription)),
     Last_Updated |-> dict_get(report.updatedAt, JStr(S_Unknown)),
     High_Risk |-> loop.risk_counts.High,
     Medium_Risk |-> loop.risk_counts.Medium,
     Low_Risk |-> loop.risk_counts.Low,
     Sensitivities |-> loop.sensitivities,
     Data_Protection |-> metric(loop.risk_counts.High, 30, 50),
     Access_Control |-> metric(loop.risk_counts.Medium, 20, 60),
     Security_Monitoring |-> metric(loop.risk_counts.Low, 10, 70),
     Privacy |-> metric(Len(sensitive_data.items), 15, 55),
     Encryption |-> metric(loop.risk_counts.High, 25, 45)]

extract_compliance_details(json_data) ==
    LET first == first_object(json_data) IN
    IF first.raised # "none" THEN first ELSE
    LET report == first.value
        sev == get_severity(report) IN
    IF sev.raised # "none" THEN sev ELSE
    LET seed == seed_risk_counts(sev.value) IN
    IF seed.raised # "none" THEN seed ELSE
    LET sd == get_sensitive_data(report) IN
    IF sd.raised # "none" THEN sd ELSE
    IF sd.value.kind \notin {"list", "str"} THEN Raise("TypeError") ELSE
    LET loop == categorize(sd.value.items, 1, seed.value, <<>>) IN
    IF loop.raised # "none" THEN loop ELSE
    Return(compliance_dict(report, sev.value, sd.value, loop.value))

----------------------------------------------------------------------------
(* generate_pdf: the drawString calls, in order, with their coordinates.  *)

TitleY == 750
SeparatorY == 730
StartY == 700
LineHeight == 20
LeftMargin == 100
ItemIndent == 120
PageBottom == 0

(* compliance_details.items(): the keys in insertion order.               *)
ReportKeys ==
    <<"Risk_Level", "Category", "Findings_Count", "Description",
      "Last_Updated", "High_Risk", "Medium_Risk", "Low_Risk", "Sensitivities",
      "Data_Protection", "Access_Control", "Security_Monitoring", "Privacy",
      "Encryption">>

drawString(ops, x, y, what) == Append(ops, [x |-> x, y |-> y, what |-> what])

(* The inner loop: one indented line per entry of Sensitivities.          *)
RECURSIVE draw_sensitivities(_, _, _, _)
draw_sensitivities(value, i, y_position, ops) ==
    IF i > Len(value) THEN [y_position |-> y_position, ops |-> ops]
    ELSE draw_sensitivities(value, i + 1, y_position - LineHeight,
                            drawString(ops, ItemIndent, y_position, "item"))

(* The outer loop over the keys, from key k on.                           *)
RECURSIVE draw_fields(_, _, _, _)
draw_fields(compliance_details, k, y_position, ops) ==
    IF k > Len(ReportKeys) THEN ops
    ELSE IF ReportKeys[k] = "Sensitivities"
    THEN LET inner == draw_sensitivities(
                          compliance_details.Sensitivities, 1,
                          y_position - LineHeight,
                          drawString(ops, LeftMargin, y_position, ReportKeys[k]))
         IN  draw_fields(compliance_details, k + 1, inner.y_position, inner.ops)
    ELSE draw_fields(compliance_details, k + 1, y_position - LineHeight,
                     drawString(ops, LeftMargin, y_position, ReportKeys[k]))

generate_pdf(compliance_details) ==
    draw_fields(compliance_details, 1, StartY,
                drawString(drawString(<<>>, LeftMargin, TitleY, "title"),
                           LeftMargin, SeparatorY, "separator"))

----------------------------------------------------------------------------
(* The findings documents and the states of the JSON bucket that the      *)
(* handler is run against.                                                *)

MaxItems == 2
MaxRepeat == 23

SeverityStrings ==
    {S_High, S_HIGH, S_hIgH, S_high, S_Medium, S_mEDIUM, S_Low, S_Unknown, <<>>}

SeverityValues ==
    {[kind |-> k, description |-> JAbsent] : k \in {"absent", "null", "num"}}
    \cup {[kind |-> "dict", description |-> d] :
            d \in {JAbsent, JNull, JNum(3)} \cup {JStr(s) : s \in SeverityStrings}}

ValidFields ==
    [category |-> JStr(S_PII), count |-> JNum(5),
     description |-> JStr(S_Text), updatedAt |-> JStr(S_Timestamp)]

(* The four scalar fields: all present and well-typed, all missing, or    *)
(* one of them missing, null or of another type.                          *)
FieldValues ==
    {ValidFields,
     [category |-> JAbsent, count |-> JAbsent,
      description |-> JAbsent, updatedAt |-> JAbsent],
     [ValidFields EXCEPT !.category = JNum(7)],
     [ValidFields EXCEPT !.count = JStr(S_Text)]}
    \cup {[ValidFields EXCEPT ![f] = v] :
            f \in {"category", "count", "description", "updatedAt"},
            v \in {JAbsent, JNull}}

Categories ==
    {S_FINANCIAL, S_PERSONAL_HEALTH, S_SSN, S_EMAIL, S_PHONE, S_ADDRESS,
     S_ssn, S_Email, S_OTHER, S_Unknown}

DictItem(c) == [kind |-> "dict", category |-> c]
OtherItem(k) == [kind |-> k, category |-> JAbsent]

ItemValues ==
    {DictItem(c) : c \in {JAbsent, JNull, JNum(1)} \cup {JStr(s) : s \in Categories}}
    \cup {OtherItem("str")}

CommonItems ==
    {DictItem(JStr(S_SSN)), DictItem(JStr(S_EMAIL)), DictItem(JStr(S_ssn)),
     DictItem(JAbsent)}

RepeatedItems ==
    {DictItem(JStr(S_SSN)), DictItem(JStr(S_EMAIL)), DictItem(JStr(S_OTHER))}

ItemLists ==
    UNION {[1..n -> CommonItems] : n \in 0..MaxItems}
    \cup {<<i>> : i \in ItemValues}
    \cup {<<DictItem(JStr(S_EMAIL)), DictItem(JStr(S_SSN)), DictItem(JStr(S_OTHER))>>}
    \cup {[j \in 1..n |-> i] : i \in RepeatedItems, n \in (MaxItems + 1)..MaxRepeat}

SensitiveDataValues ==
    {[kind |-> k, items |-> <<>>] : k \in {"absent", "null", "num", "str"}}
    \cup {[kind |-> "str", items |-> <<OtherItem("str")>>]}
    \cup {[kind |-> "list", items |-> l] : l \in ItemLists}

ResultValues ==
    {[kind |-> k, sensitiveData |-> [kind |-> "absent", items |-> <<>>]] :
        k \in {"absent", "null", "num"}}
    \cup {[kind |-> "dict", sensitiveData |-> sd] : sd \in SensitiveDataValues}

DetailsValues ==
    {[kind |-> k, result |-> [kind |-> "absent",
                              sensitiveData |-> [kind |-> "absent", items |-> <<>>]]] :
        k \in {"absent", "null", "num"}}
    \cup {[kind |-> "dict", result |-> r] : r \in ResultValues}

Finding(kind, severity, fields, details) ==
    [kind |-> kind, severity |-> severity, category |-> fields.category,
     count |-> fields.count, description |-> fields.description,
     updatedAt |-> fields.updatedAt, classificationDetails |-> details]

Findings ==
    {Finding("dict", s, f, d) :
        s \in SeverityValues, f \in FieldValues, d \in DetailsValues}
    \cup {Finding("num", [kind |-> "absent", description |-> JAbsent],
                  ValidFields, CHOOSE d \in DetailsValues : d.kind = "absent")}

None == [kind |-> "none", elems |-> <<>>]

(* A second finding of a record: json_data[0] leaves it unread.           *)
SecondFinding ==
    Finding("dict", [kind |-> "dict", description |-> JStr(S_High)], ValidFields,
            [kind |-> "dict",
             result |-> [kind |-> "dict",
                         sensitiveData |-> [kind |-> "list",
                                            items |-> <<DictItem(JStr(S_SSN))>>]]])

(* What json.loads can return for the document: null, a value that is no  *)
(* list, the empty list, or a list whose first element is a finding.      *)
Documents ==
    {None, [kind |-> "num", elems |-> <<>>], [kind |-> "list", elems |-> <<>>]}
    \cup {[kind |-> "list", elems |-> <<f>>] : f \in Findings}
    \cup {[kind |-> "list", elems |-> <<f, SecondFinding>>] :
            f \in {g \in Findings : g.count = JAbsent}}

(* The JSON bucket as one request finds it: whether an object under       *)
(* JSON_PREFIX exists, which S3 or parsing step fails, and the document.  *)
Faults == {"none", "list_objects", "get_object", "json_loads"}

Environments ==
    {[exists |-> FALSE, fault |-> f, doc |-> None] : f \in {"none", "list_objects"}}
    \cup {[exists |-> TRUE, fault |-> f, doc |-> None] : f \in Faults \ {"none"}}
    \cup {[exists |-> TRUE, fault |-> "none", doc |-> d] : d \in Documents}

----------------------------------------------------------------------------
(* fetch_json_from_s3                                                     *)

(* The body of the try block: the first element of the pair it returns.   *)
fetch_try(env) ==
    IF env.fault = "list_objects" THEN Raise("ClientError")
    ELSE IF ~env.exists THEN Return(None)
    ELSE IF env.fault = "get_object" THEN Raise("ClientError")
    ELSE IF env.fault = "json_loads" THEN Raise("JSONDecodeError")
    ELSE Return(env.doc)

(* fetch_json_from_s3 without its except clause: the exception reaches   *)
(* the caller.                                                            *)
fetch_without_except(env) == fetch_try(env)

(* The except clause turns every exception into (None, None).             *)
fetch_json_from_s3(env) ==
    LET r == fetch_try(env)
    IN  IF r.raised # "none" THEN Return(None) ELSE r

----------------------------------------------------------------------------
(* The /result handler, one action per statement of its try block.        *)

VARIABLES pc, env, json_data, compliance_details, pdf_content, steps, exc,
          response

vars == <<pc, env, json_data, compliance_details, pdf_content, steps, exc,
          response>>

NoEnv == [exists |-> FALSE, fault |-> "none", doc |-> None]
NoResponse == [status |-> 0, body |-> "", file_url |-> FALSE]
NoDetails == [kind |-> "none"]

Init ==
    /\ pc = "idle"
    /\ env = NoEnv
    /\ json_data = None
    /\ compliance_details = NoDetails
    /\ pdf_content = <<>>
    /\ steps = <<>>
    /\ exc = "none"
    /\ response = NoResponse

(* json_data, json_file_key = fetch_json_from_s3()                        *)
Fetch ==
    /\ pc = "idle"
    /\ \E e \in Environments :
          LET r == fetch_json_from_s3(e)
          IN  /\ env' = e
              /\ IF r.raised # "none"
                 THEN /\ pc' = "except"
                      /\ exc' = r.raised
                      /\ UNCHANGED <<json_data, steps>>
                 ELSE /\ pc' = "fetched"
                      /\ json_data' = r.value
                      /\ steps' = Append(steps, "fetch")
                      /\ UNCHANGED exc
    /\ UNCHANGED <<compliance_details, pdf_content, response>>

(* if json_data is None: return "No compliance report found", 404         *)
NotFound ==
    /\ pc = "fetched"
    /\ json_data = None
    /\ pc' = "done"
    /\ response' = [status |-> 404, body |-> "No compliance report found",
                    file_url |-> FALSE]
    /\ UNCHANGED <<env, json_data, compliance_details, pdf_content, steps, exc>>

(* compliance_details = extract_compliance_details(json_data)             *)
Extract ==
    /\ pc = "fetched"
    /\ json_data # None
    /\ LET r == extract_compliance_details(json_data)
       IN  IF r.raised # "none"
           THEN /\ pc' = "except"
                /\ exc' = r.raised
                /\ UNCHANGED <<compliance_details, steps>>
           ELSE /\ pc' = "extracted"
                /\ compliance_details' = r.value
                /\ steps' = Append(steps, "extract")
                /\ UNCHANGED exc
    /\ UNCHANGED <<env, json_data, pdf_content, response>>

(* pdf_content = generate_pdf(compliance_details)                         *)
Render ==
    /\ pc = "extracted"
    /\ pdf_content' = generate_pdf(compliance_details)
    /\ steps' = Append(steps, "render")
    /\ pc' = "rendered"
    /\ UNCHANGED <<env, json_data, compliance_details, exc, response>>

(* A call of the S3 client or of the template engine: it returns, or it   *)
(* raises and control passes to the except clause.                        *)
Call(from, to, step, error) ==
    /\ pc = from
    /\ \/ /\ pc' = to
          /\ steps' = Append(steps, step)
          /\ UNCHANGED exc
       \/ /\ pc' = "except"
          /\ exc' = error
          /\ UNCHANGED steps

(* s3.upload_fileobj(pdf_content, PDF_BUCKET, pdf_filename)               *)
Upload ==
    /\ Call("rendered", "stored", "store", "ClientError")
    /\ UNCHANGED <<env, json_data, compliance_details, pdf_content, response>>

(* pdf_url = s3.generate_presigned_url(...)                               *)
Presign ==
    /\ Call("stored", "signed", "sign", "ClientError")
    /\ UNCHANGED <<env, json_data, compliance_details, pdf_content, response>>

(* return render_template("result.html", compliance=..., file_url=...)    *)
Respond ==
    /\ Call("signed", "done", "respond", "TemplateError")
    /\ response' = IF pc' = "done"
                   THEN [status |-> 200, body |-> "result.html", file_url |-> TRUE]
                   ELSE response
    /\ UNCHANGED <<env, json_data, compliance_details, pdf_content>>

(* except Exception: return "Error processing JSON file or file not       *)
(* found", 500                                                            *)
HandleException ==
    /\ pc = "except"
    /\ pc' = "done"
    /\ response' = [status |-> 500,
                    body |-> "Error processing JSON file or file not found",
                    file_url |-> FALSE]
    /\ UNCHANGED <<env, json_data, compliance_details, pdf_content, steps, exc>>

(* The next request: the handler's locals start afresh.                   *)
NextRequest ==
    /\ pc = "done"
    /\ pc' = "idle"
    /\ env' = NoEnv
    /\ json_data' = None
    /\ compliance_details' = NoDetails
    /\ pdf_content' = <<>>
    /\ steps' = <<>>
    /\ exc' = "none"
    /\ response' = NoResponse

Next ==
    \/ Fetch
    \/ NotFound
    \/ Extract
    \/ Render
    \/ Upload
    \/ Presign
    \/ Respond
    \/ HandleException
    \/ NextRequest

Spec == Init /\ [][Next]_vars

----------------------------------------------------------------------------
(* What the properties below speak of.                                    *)

HasReport == compliance_details # NoDetails

(* The handler is past the call of extract_compliance_details.            *)
PastExtract == pc \notin {"idle", "fetched"} /\ json_data # None

(* extract_compliance_details raised.                                     *)
ExtractRaised == PastExtract /\ steps = <<"fetch">>

NonEmptyRecord == json_data.kind = "list" /\ Len(json_data.elems) >= 1

(* Element 0 of the findings record and its sensitiveData items; a        *)
(* missing key on the way reads as no items.                              *)
Element0 == json_data.elems[1]
InputItems == Element0.classificationDetails.result.sensitiveData.items
InputCategory(i) ==
    IF InputItems[i].category.kind = "absent"
    THEN JStr(S_Unknown) ELSE InputItems[i].category

HighCategories == {S_FINANCIAL, S_PERSONAL_HEALTH, S_SSN}
MediumCategories == {S_EMAIL, S_PHONE, S_ADDRESS}

IsString(v, S) == v.kind = "str" /\ v.s \in S

(* C1: in a report built from a record with at least one element, High    *)
(* Risk + Medium Risk + Low Risk is 1 plus the number of sensitiveData    *)
(* items of element 0.                                                    *)
C1_TierCountsSum ==
    HasReport =>
        compliance_details.High_Risk + compliance_details.Medium_Risk
            + compliance_details.Low_Risk = 1 + Len(InputItems)

C1_Witness ==
    /\ HasReport
    /\ Len(InputItems) = 2
    /\ compliance_details.High_Risk = 2
    /\ compliance_details.Medium_Risk = 0
    /\ compliance_details.Low_Risk = 1

(* C2: every Sensitivity follows the rule table by exact, case-sensitive  *)
(* match of its category: FINANCIAL, PERSONAL_HEALTH, SSN are High with   *)
(* "Immediately protect {category} information"; EMAIL, PHONE, ADDRESS    *)
(* are Medium with "Review and secure {category} data handling"; every    *)
(* other category is Low with "Maintain current data protection           *)
(* measures"; and no category string makes the extraction raise.          *)
C2_Classification ==
    /\ HasReport =>
         \A i \in 1..Len(compliance_details.Sensitivities) :
            LET s == compliance_details.Sensitivities[i]
            IN  IF IsString(s.type, HighCategories)
                THEN /\ s.risk = "High"
                     /\ s.action = S_ImmediatelyProtect \o s.type.s \o S_Information
                ELSE IF IsString(s.type, MediumCategories)
                THEN /\ s.risk = "Medium"
                     /\ s.action = S_ReviewAndSecure \o s.type.s \o S_DataHandling
                ELSE /\ s.risk = "Low"
                     /\ s.action = S_Maintain
    /\ ExtractRaised /\ NonEmptyRecord /\ Element0.kind = "dict"
         /\ Element0.severity.kind = "dict"
         /\ Element0.severity.description.kind = "str"
         /\ Element0.classificationDetails.kind = "dict"
         /\ Element0.classificationDetails.result.kind = "dict"
         /\ Element0.classificationDetails.result.sensitiveData.kind = "list"
       => \E i \in 1..Len(InputItems) : InputItems[i].kind # "dict"

C2_Witness ==
    /\ HasReport
    /\ Len(compliance_details.Sensitivities) = 2
    /\ compliance_details.Sensitivities[1].type = JStr(S_ssn)
    /\ compliance_details.Sensitivities[1].risk = "Low"
    /\ compliance_details.Sensitivities[2].type = JStr(S_SSN)
    /\ compliance_details.Sensitivities[2].risk = "High"

(* One letter in its two cases, for the letters of "high" and "medium".   *)
CasePairs ==
    {<<"h", "H">>, <<"i", "I">>, <<"g", "G">>, <<"m", "M">>, <<"e", "E">>,
     <<"d", "D">>, <<"u", "U">>}

(* s is the lower-case word w in some letter case.                        *)
InAnyCase(s, w) ==
    /\ Len(s) = Len(w)
    /\ \A i \in 1..Len(w) : s[i] = w[i] \/ <<w[i], s[i]>> \in CasePairs

(* The number of items whose category is a string of the set S.           *)
ItemsIn(S) == Cardinality({i \in 1..Len(InputItems) : IsString(InputCategory(i), S)})

(* C3: the severity seed is High for a description that is "high" in any  *)
(* letter case, Medium for "medium" in any letter case and Low for any    *)
(* other description, the default "Unknown" included; one bucket is       *)
(* seeded with 1 and the other two with 0; Risk Level is the description  *)
(* in its original casing.                                                *)
C3_SeveritySeed ==
    HasReport =>
        LET description == IF Element0.severity.description.kind = "absent"
                           THEN JStr(S_Unknown)
                           ELSE Element0.severity.description
            seedHigh == compliance_details.High_Risk - ItemsIn(HighCategories)
            seedMedium == compliance_details.Medium_Risk - ItemsIn(MediumCategories)
            seedLow == compliance_details.Low_Risk
                         - (Len(InputItems) - ItemsIn(HighCategories)
                              - ItemsIn(MediumCategories))
        IN  /\ compliance_details.Risk_Level = description
            /\ description.kind = "str"
            /\ <<seedHigh, seedMedium, seedLow>> =
                 IF InAnyCase(description.s, S_high) THEN <<1, 0, 0>>
                 ELSE IF InAnyCase(description.s, S_medium) THEN <<0, 1, 0>>
                 ELSE <<0, 0, 1>>

C3_Witness ==
    /\ HasReport
    /\ compliance_details.Risk_Level = JStr(S_mEDIUM)
    /\ compliance_details.Medium_Risk = 1
    /\ compliance_details.High_Risk = 1
    /\ Len(InputItems) = 1

Clamped(x) == IF x > 100 THEN 100 ELSE x

(* C4: the five metrics are integers of 0..100 and equal min(100,         *)
(* High*30+50), min(100, Medium*20+60), min(100, Low*10+70), min(100,     *)
(* sensitivityCount*15+55) and min(100, High*25+45) of the final tier     *)
(* counts and the number of Sensitivities; High = 10 gives Data           *)
(* Protection 100.                                                        *)
C4_Metrics ==
    HasReport =>
        LET d == compliance_details
        IN  /\ \A m \in {d.Data_Protection, d.Access_Control,
                         d.Security_Monitoring, d.Privacy, d.Encryption} :
                  m \in 0..100
            /\ d.Data_Protection = Clamped(d.High_Risk * 30 + 50)
            /\ d.Access_Control = Clamped(d.Medium_Risk * 20 + 60)
            /\ d.Security_Monitoring = Clamped(d.Low_Risk * 10 + 70)
            /\ d.Privacy = Clamped(Len(d.Sensitivities) * 15 + 55)
            /\ d.Encryption = Clamped(d.High_Risk * 25 + 45)
            /\ d.High_Risk = 10 => d.Data_Protection = 100

C4_Witness ==
    /\ HasReport
    /\ compliance_details.High_Risk = 10
    /\ compliance_details.Data_Protection = 100
    /\ compliance_details.Encryption = 100
    /\ compliance_details.Access_Control = 60

(* C5: Sensitivities is as long as the sensitiveData of element 0, and    *)
(* entry i has the category of item i ("Unknown" for an item without      *)
(* one): input order, nothing sorted, dropped or merged.                  *)
C5_OrderKept ==
    HasReport =>
        /\ Len(compliance_details.Sensitivities) = Len(InputItems)
        /\ \A i \in 1..Len(InputItems) :
              compliance_details.Sensitivities[i].type = InputCategory(i)

C5_Witness ==
    /\ HasReport
    /\ Len(compliance_details.Sensitivities) = 3
    /\ compliance_details.Sensitivities[1].type = JStr(S_EMAIL)
    /\ compliance_details.Sensitivities[2].type = JStr(S_SSN)
    /\ compliance_details.Sensitivities[3].type = JStr(S_OTHER)

EmptyRecord == json_data = [kind |-> "list", elems |-> <<>>]

(* C6: on the empty findings record the extraction raises (IndexError),   *)
(* no report is built, nothing is rendered, stored or signed, and the     *)
(* caller gets the error response without a link.                         *)
C6_EmptyRecord ==
    EmptyRecord /\ PastExtract =>
        /\ exc = "IndexError"
        /\ ~HasReport
        /\ pdf_content = <<>>
        /\ steps = <<"fetch">>
        /\ pc \in {"except", "done"}
        /\ pc = "done" =>
              response = [status |-> 500,
                          body |-> "Error processing JSON file or file not found",
                          file_url |-> FALSE]

C6_Witness ==
    /\ EmptyRecord
    /\ pc = "done"
    /\ response.status = 500

(* C7: the "not found" answer is given when, and only when, no matching   *)
(* findings document exists; an empty record, a failed retrieval or an    *)
(* unparsable document is never answered with "not found".                *)
C7_NotFoundOnlyWhenAbsent ==
    pc = "done" => (response.status = 404 <=> ~env.exists)

(* C8: on a non-empty record whose element 0 is an object, the            *)
(* extraction never raises, whatever field is missing, null or of the     *)
(* wrong type, and a report is produced.                                  *)
C8_NeverRaises ==
    PastExtract /\ NonEmptyRecord /\ Element0.kind = "dict" =>
        HasReport /\ exc \notin {"AttributeError", "TypeError"}

(* C9: no line of the document is drawn below the bottom of the page.     *)
C9_NoLineBelowPage ==
    \A i \in 1..Len(pdf_content) : pdf_content[i].y >= PageBottom

Pipeline == <<"fetch", "extract", "render", "store", "sign", "respond">>

(* C10: the steps of a run are taken in the order fetch, extract,         *)
(* render, store, sign, respond; a document is stored and a link signed   *)
(* only after fetch, extraction and rendering succeeded; a fetch that     *)
(* yields nothing is answered 404 and a failure of a later step 500,      *)
(* neither with a link; a raised exception always has its handler.        *)
C10_HandlerOrder ==
    /\ Len(steps) <= Len(Pipeline)
    /\ \A i \in 1..Len(steps) : steps[i] = Pipeline[i]
    /\ Len(steps) >= 4 => HasReport /\ pdf_content # <<>>
    /\ response.file_url => response.status = 200 /\ steps = Pipeline
    /\ pc = "done" =>
          response.status = IF Len(steps) >= 1 /\ json_data = None THEN 404
                            ELSE IF steps = Pipeline THEN 200
                            ELSE 500
    /\ pc = "done" /\ env.fault # "none" => response.status = 404
    /\ exc # "none" => pc \in {"except", "done"}
    /\ pc = "except" => exc # "none" /\ ENABLED HandleException

C10_Witness ==
    /\ pc = "done"
    /\ steps = Pipeline
    /\ response.status = 200
    /\ response.file_url

====
